---------------------------- MODULE Spec2Model ----------------------------
(***************************************************************************)
(* The rope toy of src/src/App.vue and its older variant                   *)
(* (src/unnamed/part_000): a draggable rope end tethered to a circular     *)
(* window, whose length and angle drive a small synthesizer.               *)
(*                                                                         *)
(* JavaScript numbers are modelled as decimal fixed-point numbers with     *)
(* Q units per pixel (Hz, gain unit): the integer n stands for n / Q.      *)
(* Every arithmetic operation rounds its exact result to the nearest       *)
(* representable number, as IEEE-754 does, and NaN is a value of its own   *)
(* that every operation propagates and every comparison rejects.           *)
(***************************************************************************)
EXTENDS Integers, Sequences, FiniteSets

\* Units per 1.0: three decimal digits.
Q == 10 * 10 * 10

\* The number n (an integer literal of the source) as a fixed-point value.
Lit(n) == n * Q

NaN == -999999999
Infinity == 999999998

IsFinite(a) == a # NaN /\ a # Infinity

\* a / b for integers, b > 0, rounded to the nearest integer.
RoundDiv(a, b) == (2 * a + b) \div (2 * b)

CeilDiv(a, b) == (a + b - 1) \div b

Abs(a) == IF a < 0 THEN -a ELSE a

NonFinite(a, b) == IF a = NaN \/ b = NaN THEN NaN ELSE Infinity

\* a + b
Add(a, b) == IF IsFinite(a) /\ IsFinite(b) THEN a + b ELSE NonFinite(a, b)

\* a - b
Sub(a, b) == IF IsFinite(a) /\ IsFinite(b) THEN a - b ELSE NonFinite(a, b)

\* a * b: (a / Q) * (b / Q) in units of 1 / Q. Both factors are split into
\* integer and fractional parts so that no intermediate product leaves 32
\* bits; the sum is the exact product rounded once.
Mul(a, b) ==
    IF IsFinite(a) /\ IsFinite(b)
    THEN LET ah == a \div Q
             al == a % Q
             bh == b \div Q
             bl == b % Q
         IN  ah * bh * Q + ah * bl + al * bh + RoundDiv(al * bl, Q)
    ELSE NonFinite(a, b)

\* a / b: 0 / 0 is NaN, x / 0 is infinite.
Div(a, b) ==
    IF IsFinite(a) /\ IsFinite(b)
    THEN IF b = 0
         THEN (IF a = 0 THEN NaN ELSE Infinity)
         ELSE IF b > 0 THEN RoundDiv(a * Q, b) ELSE RoundDiv(-(a * Q), -b)
    ELSE NonFinite(a, b)

\* v * Q \div r for v >= 0 and 0 < r <= SqrtLimit, computed without leaving
\* 32 bits.
ScaledQuotient(v, r) == (v \div r) * Q + ((v % r) * Q) \div r

\* Newton's iteration for the integer square root of v * Q, from a guess r
\* that is not below it.
RECURSIVE NewtonSqrt(_, _)
NewtonSqrt(v, r) ==
    LET next == (r + ScaledQuotient(v, r)) \div 2
    IN  IF next >= r THEN r ELSE NewtonSqrt(v, next)

\* An upper limit of the square roots taken: below sqrt(2^31 / Q).
SqrtLimit == 1449 * Q

\* A first guess not below the square root of v / Q.
SqrtGuess(v) ==
    IF v <= Lit(1) THEN Lit(1)
    ELSE IF v <= Lit(100) THEN Lit(10)
    ELSE IF v <= Lit(10000) THEN Lit(100)
    ELSE IF v <= Lit(1000000) THEN Lit(1000)
    ELSE SqrtLimit

\* r * r + c <= v * Q, for r, c, v >= 0, computed without leaving 32 bits.
SqLe(r, c, v) ==
    LET rh == r \div Q
        rl == r % Q
    IN  rh * rh * Q + 2 * rh * rl + CeilDiv(rl * rl + c, Q) <= v

\* Math.sqrt(v), rounded to nearest.
Sqrt(v) ==
    IF ~IsFinite(v) THEN v
    ELSE IF v < 0 THEN NaN
    ELSE IF v = 0 THEN 0
    ELSE LET r == NewtonSqrt(v, SqrtGuess(v))
         IN  IF SqLe(r, r + 1, v) THEN r + 1 ELSE r

\* Math.min(a, b)
MathMin(a, b) == IF a = NaN \/ b = NaN THEN NaN ELSE IF a < b THEN a ELSE b

\* a <= b: false when either side is NaN.
Le(a, b) == a # NaN /\ b # NaN /\ a <= b

\* a > b: false when either side is NaN.
Gt(a, b) == a # NaN /\ b # NaN /\ a > b

Point(px, py) == [x |-> px, y |-> py]


\* Math.PI
PI == RoundDiv(355 * Q, 113)

\* Math.atan(z) for |z| <= 1, by the approximation
\* z * (pi / 4 + 0.273 * (1 - |z|)) (error below 0.004 rad).
AtanUnit(z) ==
    Mul(z, Add(Div(PI, Lit(4)), Mul(Div(Lit(273), Lit(1000)), Sub(Lit(1), Abs(z)))))

\* Math.atan(a / b) for finite a, b with b # 0, reduced to |z| <= 1.
AtanRatio(a, b) ==
    IF Abs(a) <= Abs(b)
    THEN AtanUnit(Div(a, b))
    ELSE LET h == Div(PI, Lit(2))
             t == AtanUnit(Div(b, a))
         IN  IF (a > 0) = (b > 0) THEN h - t ELSE -h - t

\* Math.atan2(a, b): the angle of the vector (b, a), in (-pi, pi].
Atan2(a, b) ==
    IF ~(IsFinite(a) /\ IsFinite(b)) THEN NaN
    ELSE IF b > 0 THEN AtanRatio(a, b)
    ELSE IF b < 0 THEN (IF a >= 0 THEN AtanRatio(a, b) + PI
                        ELSE AtanRatio(a, b) - PI)
    ELSE IF a > 0 THEN Div(PI, Lit(2))
    ELSE IF a < 0 THEN -Div(PI, Lit(2))
    ELSE 0

(***************************************************************************)
(* Bounds and inputs                                                       *)
(***************************************************************************)

\* Frames run by requestAnimationFrame in one behaviour.
MaxTicks == 1

\* Where the layout puts the centre of the .window element, in viewport
\* coordinates: the first is the layout at mount, the others are what a
\* scroll or a resize of the viewport leaves. (An element that is missing
\* from the document has no position: layout keeps its last one.)
Layouts == { Point(Lit(500), Lit(500)), Point(Lit(500), Lit(-100)) }

MountLayout == Point(Lit(500), Lit(500))

\* clientX / clientY of the pointer-move events, in whole pixels: a point
\* to the right of the mount-time centre, and that centre itself.
MovePositions == { Point(Lit(600), Lit(500)), Point(Lit(500), Lit(500)) }

\* The highest whole frequency, in hertz, that pitch snapping is applied to.
MaxSnapHertz == 900

\* How far a scroll moves the .window element up, in steps of 10 px.
MaxScrollSteps == 50

\* Runs of onUnmounted in one behaviour, where it may run again.
MaxTeardowns == 2

\* Frames run in one behaviour while the rope end settles.
MaxSettleTicks == 600

\* Frames run in one behaviour where the .window element comes and goes.
MaxRetryTicks == 3

VARIABLES
    variant,            \* "App" (src/src/App.vue) or "Old" (src/unnamed/part_000)
    phase,              \* "setup", "mounted", "unmounted"
    isDragging, mousePosition, windowCenter, restPosition, currentRopeEnd,
    animationFrameId,   \* "null" or "set"
    framePending,       \* a requestAnimationFrame callback is scheduled
    isAudioInitialized,
    audioContext,       \* "null", "running", "closed"
    oscillator, lfo,    \* "null", "started", "stopped"
    gainNode, lfoGain, lowpassFilter,   \* TRUE when not null
    listeners,          \* the five window event listeners are registered
    layout,             \* centre of the .window element as laid out
    windowSize,         \* width = height of the .window element (style)
    hovered,            \* the pointer is over the .window element
    canvasPresent, windowPresent,   \* the elements the handlers look up
    fault,              \* the handler that ran last threw
    writes,             \* the calls the handler that ran last made on the synth
    frame,              \* the locals of the animate() call that ran last
    contextsCreated,    \* AudioContext objects constructed so far
    ticks,              \* frames run so far
    teardowns           \* runs of onUnmounted so far

kinematics == <<isDragging, mousePosition, windowCenter, restPosition, currentRopeEnd>>

audio == <<isAudioInitialized, audioContext, oscillator, lfo, gainNode, lfoGain,
           lowpassFilter, contextsCreated>>

environment == <<layout, windowSize, hovered, canvasPresent, windowPresent>>

scheduling == <<animationFrameId, framePending, ticks, teardowns>>

vars == <<variant, phase, kinematics, audio, environment, scheduling, listeners,
          fault, writes, frame>>

\* frame when the handler that ran last was not animate(). normalized holds
\* every value a frame computed as its normalized rope length; pitch is
\* <<baseFrequency, snappedFrequency>> when the frame snapped a pitch.
NoFrame ==
    [ran |-> FALSE, skipped |-> FALSE, ropeLength |-> 0, normalized |-> {},
     pitch |-> <<>>]


(***************************************************************************)
(* Pure functions                                                          *)
(***************************************************************************)

PENTATONIC_FREQUENCIES ==
    << 110000, 130810, 146830, 164810, 196000, 220000, 261630, 293660,
       329630, 392000, 440000, 523250, 587330, 659250, 783990, 880000 >>

\* The reduce of findClosestPentatonicFrequency from element i on, prev being
\* the accumulator.
RECURSIVE ReduceClosest(_, _, _)
ReduceClosest(freq, prev, i) ==
    IF i > Len(PENTATONIC_FREQUENCIES) THEN prev
    ELSE LET curr == PENTATONIC_FREQUENCIES[i]
         IN  ReduceClosest(freq,
                           IF IsFinite(freq) /\ Abs(curr - freq) < Abs(prev - freq)
                           THEN curr ELSE prev,
                           i + 1)

\* The reduce with <= as its comparison: the later of two equally near
\* members wins.
RECURSIVE ReduceClosestTiesUp(_, _, _)
ReduceClosestTiesUp(freq, prev, i) ==
    IF i > Len(PENTATONIC_FREQUENCIES) THEN prev
    ELSE LET curr == PENTATONIC_FREQUENCIES[i]
         IN  ReduceClosestTiesUp(freq,
                                 IF IsFinite(freq) /\ Abs(curr - freq) <= Abs(prev - freq)
                                 THEN curr ELSE prev,
                                 i + 1)

findClosestTiesUp(freq) ==
    ReduceClosestTiesUp(freq, PENTATONIC_FREQUENCIES[1], 2)

findClosestPentatonicFrequency(freq) ==
    ReduceClosest(freq, PENTATONIC_FREQUENCIES[1], 2)

\* lerp with its end points exchanged.
lerpFromEnd(start, end, t) == Add(end, Mul(Sub(start, end), t))

lerp(start, end, t) == Add(start, Mul(Sub(end, start), t))

calculateRopeLength(x1, y1, x2, y2) ==
    Sqrt(Add(Mul(Sub(x2, x1), Sub(x2, x1)), Mul(Sub(y2, y1), Sub(y2, y1))))

calculateAngle(x1, y1, x2, y2) ==
    LET dx == Sub(x2, x1)
        dy == Sub(y2, y1)
    IN  Atan2(dx, dy)

\* Math.min((ropeLength - 150) / (500 - 150), 1), as written at every place
\* a frame normalizes the rope length.
NormalizeLength(ropeLength) ==
    MathMin(Div(Sub(ropeLength, Lit(150)), Sub(Lit(500), Lit(150))), Lit(1))

(***************************************************************************)
(* The page: layout of the .window element                                 *)
(***************************************************************************)

\* The border-box size of .window: its style in App.vue (written by every
\* frame), its :hover rule in the older variant.
WindowBoxSize(size) ==
    IF variant = "Old" THEN (IF hovered THEN Lit(500) ELSE Lit(200)) ELSE size

\* windowDiv.getBoundingClientRect() with the element centred on c
\* (left: 50%; top: 50%; transform: translate(-50%, -50%)).
BoundingClientRect(c, size) ==
    LET w == WindowBoxSize(size)
        l == Sub(c.x, Div(w, Lit(2)))
        t == Sub(c.y, Div(w, Lit(2)))
    IN  [left |-> l, top |-> t, width |-> w, height |-> w, bottom |-> Add(t, w)]

\* The value updateWindowCenter() assigns to windowCenter.
updateWindowCenter(c, size) ==
    LET rect == BoundingClientRect(c, size)
    IN  Point(Add(rect.left, Div(rect.width, Lit(2))),
              Add(rect.top, Div(rect.height, Lit(2))))

\* RestRadius without the offset from the window edge.
RestRadiusNoOffset(rect) == Div(Lit(200), Lit(2))

\* The radius of calculateRestPosition: fixed in App.vue, taken from the
\* element in the older variant.
RestRadius(rect) ==
    IF variant = "App" THEN Add(Div(Lit(200), Lit(2)), Lit(20))
    ELSE Add(Div(rect.width, Lit(2)), Lit(20))

\* calculateRestPosition without the normalization of the vector.
calculateRestPositionUnnormalized(mouseX, mouseY, center, rect) ==
    LET dx == Sub(mouseX, center.x)
        dy == Sub(mouseY, center.y)
    IN  Point(Add(center.x, dx), Add(center.y, dy))

calculateRestPosition(mouseX, mouseY, center, rect) ==
    LET radius == RestRadius(rect)
        dx == Sub(mouseX, center.x)
        dy == Sub(mouseY, center.y)
        distance == Sqrt(Add(Mul(dx, dx), Mul(dy, dy)))
        normalizedX == Div(dx, distance)
        normalizedY == Div(dy, distance)
    IN  Point(Add(center.x, Mul(normalizedX, radius)),
              Add(center.y, Mul(normalizedY, radius)))


(***************************************************************************)
(* The synthesizer                                                         *)
(***************************************************************************)

\* param.setValueAtTime(value, audioContext.currentTime)
SetValueAtTime(param, value) ==
    [param |-> param, method |-> "setValueAtTime", value |-> value, timeConstant |-> 0]

\* param.setTargetAtTime(value, audioContext.currentTime, timeConstant)
SetTargetAtTime(param, value, timeConstant) ==
    [param |-> param, method |-> "setTargetAtTime", value |-> value,
     timeConstant |-> timeConstant]

\* An AudioParam method throws a TypeError on a non-finite value: the calls
\* of a handler that are made before the first such call.
RECURSIVE Issued(_)
Issued(calls) ==
    IF calls = <<>> \/ ~IsFinite(Head(calls).value) THEN <<>>
    ELSE <<Head(calls)>> \o Issued(Tail(calls))

Throws(calls) == \E i \in 1..Len(calls) : ~IsFinite(calls[i].value)

\* lfoGain.gain.value, as set by initAudio.
LfoGainValue == IF variant = "App" THEN Lit(3) ELSE Lit(50)

\* The cap of the gain target.
GainCap == IF variant = "App" THEN Div(Lit(4), Lit(10)) ELSE Div(Lit(75), Lit(100))

\* The gain target without the Math.min that caps the normalized length.
TargetGainUnclamped(ropeLength) ==
    IF Gt(ropeLength, Lit(150))
    THEN Mul(Div(Sub(ropeLength, Lit(150)), Sub(Lit(500), Lit(150))), GainCap)
    ELSE 0

\* The gain target of updateAudio.
TargetGain(ropeLength) ==
    IF Gt(ropeLength, Lit(150))
    THEN Mul(MathMin(Div(Sub(ropeLength, Lit(150)), Sub(Lit(500), Lit(150))), Lit(1)),
             GainCap)
    ELSE 0

\* baseFrequency of updateAudio: the angle mapped to a frequency range.
BaseFrequency(angle) ==
    LET normalizedAngle == Div(Add(angle, PI), Mul(Lit(2), PI))
    IN  IF variant = "App"
        THEN Add(Lit(110), Mul(normalizedAngle, Lit(770)))
        ELSE Add(Lit(200), Mul(normalizedAngle, Lit(600)))

\* The oscillator frequency target of updateAudio.
OscillatorTarget(angle) ==
    IF variant = "App"
    THEN Add(findClosestPentatonicFrequency(BaseFrequency(angle)), LfoGainValue)
    ELSE Add(BaseFrequency(angle), LfoGainValue)

\* The LFO frequency of updateAudio.
LfoFrequency(normalizedRopeLength) ==
    IF variant = "App"
    THEN Add(Div(Lit(1), Lit(10)),
             Mul(normalizedRopeLength, Sub(Lit(15), Div(Lit(1), Lit(10)))))
    ELSE Add(Div(Lit(5), Lit(10)),
             Mul(Mul(normalizedRopeLength, Sub(Lit(5), Div(Lit(5), Lit(10)))), Lit(20)))

\* The guard of updateAudio taken as always passed.
AudioReadyAlways == TRUE

\* The guard of updateAudio: every handle it uses is set.
AudioReady ==
    oscillator # "null" /\ gainNode /\ audioContext # "null" /\ lfo # "null" /\ lfoGain

\* updateAudio(ropeLength): the parameter writes it makes, in order, with the
\* rope end at rope and the window centre at center.
updateAudio(ropeLength, center, rope) ==
    IF ~AudioReady THEN <<>>
    ELSE LET angle == calculateAngle(center.x, center.y, rope.x, rope.y)
             cutoff == IF variant = "App" /\ lowpassFilter
                       THEN << SetValueAtTime("lowpassFilter.frequency",
                                  Add(0, Mul(NormalizeLength(ropeLength),
                                             Sub(Lit(5000), 0)))) >>
                       ELSE <<>>
         IN  cutoff \o
             << SetValueAtTime("lfo.frequency",
                               LfoFrequency(NormalizeLength(ropeLength))),
                SetTargetAtTime("oscillator.frequency", OscillatorTarget(angle),
                                Div(Lit(1), Lit(10))),
                SetTargetAtTime("gainNode.gain", TargetGain(ropeLength),
                                Div(Lit(1), Lit(10))) >>

\* initAudio without its isAudioInitialized guard.
initAudioUnguarded ==
    /\ audioContext' = "running"
    /\ oscillator' = "started"
    /\ gainNode' = TRUE
    /\ lowpassFilter' = (variant = "App")
    /\ lfo' = "started"
    /\ lfoGain' = TRUE
    /\ isAudioInitialized' = TRUE
    /\ contextsCreated' = contextsCreated + 1

\* The audio handles after initAudio().
initAudio ==
    IF ~isAudioInitialized
    THEN /\ audioContext' = "running"
         /\ oscillator' = "started"
         /\ gainNode' = TRUE
         /\ lowpassFilter' = (variant = "App")
         /\ lfo' = "started"
         /\ lfoGain' = TRUE
         /\ isAudioInitialized' = TRUE
         /\ contextsCreated' = contextsCreated + 1
    ELSE UNCHANGED audio

(***************************************************************************)
(* animate(): one frame                                                    *)
(***************************************************************************)

\* The test of the older variant's animate(): the canvas alone.
FrameSkippedCanvasOnly == ~canvasPresent

\* The frame is skipped and rescheduled when an element it needs is missing.
FrameSkipped ==
    IF variant = "App" THEN ~canvasPresent \/ ~windowPresent ELSE ~canvasPresent

\* What animate() leaves, run with the given kinematic state: the rope end,
\* the window size, the synth writes, whether it threw, whether it
\* scheduled the next frame, and its locals.
animate(dragging, mouse, rest, rope, center, size) ==
    IF FrameSkipped
    THEN [rope |-> rope, size |-> size, writes |-> <<>>, threw |-> FALSE,
          scheduled |-> TRUE,
          frame |-> [NoFrame EXCEPT !.skipped = TRUE, !.ran = TRUE]]
    ELSE LET lerpFactor == IF dragging THEN Div(Lit(2), Lit(10))
                           ELSE Div(Lit(1), Lit(100))
             targetX == IF dragging THEN mouse.x ELSE rest.x
             targetY == IF dragging THEN mouse.y ELSE rest.y
             newRope == Point(lerp(rope.x, targetX, lerpFactor),
                              lerp(rope.y, targetY, lerpFactor))
             ropeLength == calculateRopeLength(center.x, center.y,
                                               newRope.x, newRope.y)
             calls == updateAudio(ropeLength, center, newRope)
             normalizedLength == NormalizeLength(ropeLength)
             newSize == Add(Lit(200), Mul(normalizedLength, Sub(Lit(500), Lit(200))))
         IN  [rope |-> newRope,
              size |-> IF variant = "App" /\ ~Throws(calls) /\ IsFinite(newSize)
                       THEN newSize ELSE size,
              writes |-> Issued(calls),
              threw |-> Throws(calls),
              scheduled |-> ~Throws(calls),
              frame |-> [ran |-> TRUE, skipped |-> FALSE, ropeLength |-> ropeLength,
                         normalized |->
                             (IF variant = "App" THEN {normalizedLength} ELSE {})
                             \cup (IF AudioReady THEN {NormalizeLength(ropeLength)}
                                   ELSE {}),
                         pitch |->
                             IF variant = "App" /\ AudioReady /\ ~Throws(calls)
                             THEN LET base == BaseFrequency(
                                                  calculateAngle(center.x, center.y,
                                                                 newRope.x, newRope.y))
                                  IN  <<base, findClosestPentatonicFrequency(base)>>
                             ELSE <<>>]]


(***************************************************************************)
(* Handlers                                                                *)
(***************************************************************************)

Init ==
    /\ variant \in {"App", "Old"}
    /\ phase = "setup"
    /\ isDragging = FALSE
    /\ mousePosition = Point(0, 0)
    /\ windowCenter = Point(0, 0)
    /\ restPosition = Point(0, 0)
    /\ currentRopeEnd = Point(0, 0)
    /\ animationFrameId = "null"
    /\ framePending = FALSE
    /\ isAudioInitialized = FALSE
    /\ audioContext = "null"
    /\ oscillator = "null"
    /\ lfo = "null"
    /\ gainNode = FALSE
    /\ lfoGain = FALSE
    /\ lowpassFilter = FALSE
    /\ listeners = FALSE
    /\ layout = MountLayout
    /\ windowSize = Lit(200)
    /\ hovered = FALSE
    /\ canvasPresent = TRUE
    /\ windowPresent = TRUE
    /\ fault = FALSE
    /\ writes = <<>>
    /\ frame = NoFrame
    /\ contextsCreated = 0
    /\ ticks = 0
    /\ teardowns = 0

\* onMounted: place the rope end below the window, run the first frame,
\* register the listeners.
Mount ==
    /\ phase = "setup"
    /\ LET found == windowPresent /\ canvasPresent
           rect == BoundingClientRect(layout, windowSize)
           center == IF found THEN updateWindowCenter(layout, windowSize)
                     ELSE windowCenter
           rope == IF found
                   THEN Point(Add(rect.left, Div(rect.width, Lit(2))),
                              Add(rect.bottom, Lit(20)))
                   ELSE currentRopeEnd
           rest == IF found THEN rope ELSE restPosition
           f == animate(isDragging, mousePosition, rest, rope, center, windowSize)
       IN  /\ windowCenter' = center
           /\ restPosition' = rest
           /\ currentRopeEnd' = f.rope
           /\ windowSize' = f.size
           /\ writes' = f.writes
           /\ frame' = f.frame
           /\ fault' = f.threw
           /\ framePending' = f.scheduled
           /\ animationFrameId' = IF f.scheduled THEN "set" ELSE animationFrameId
           /\ listeners' = ~f.threw
    /\ phase' = "mounted"
    /\ UNCHANGED <<variant, isDragging, mousePosition, audio, layout, hovered,
                   canvasPresent, windowPresent, ticks, teardowns>>

\* The requestAnimationFrame callback: animate().
Frame ==
    /\ framePending
    /\ ticks' = ticks + 1
    /\ UNCHANGED <<variant, phase, isDragging, mousePosition, windowCenter,
                   restPosition, audio, layout, hovered, canvasPresent,
                   windowPresent, listeners, teardowns>>
    /\ LET f == animate(isDragging, mousePosition, restPosition, currentRopeEnd,
                        windowCenter, windowSize)
       IN  /\ currentRopeEnd' = f.rope
           /\ windowSize' = f.size
           /\ writes' = f.writes
           /\ frame' = f.frame
           /\ fault' = f.threw
           /\ framePending' = f.scheduled
           /\ animationFrameId' = IF f.scheduled THEN "set" ELSE animationFrameId

Tick == ticks < MaxTicks /\ Frame

\* The radius of the handle a pointer-down must land in.
HitRadius == IF variant = "App" THEN Lit(18) ELSE Lit(10)

\* Where onMounted places the rope end under MountLayout.
MountRopeEnd == Point(MountLayout.x, Add(MountLayout.y, Lit(120)))

\* clientX / clientY of the pointer-down events, in whole pixels: on the rim
\* of the handle as placed at mount, and one pixel outside it.
DownPositions ==
    { Point(Add(MountRopeEnd.x, HitRadius), MountRopeEnd.y),
      Point(Add(MountRopeEnd.x, Add(HitRadius, Lit(1))), MountRopeEnd.y) }

\* handleMouseDown with the hit test distance < radius.
handleMouseDownStrict(event) ==
    /\ listeners
    /\ fault' = FALSE
    /\ writes' = <<>>
    /\ frame' = NoFrame
    /\ UNCHANGED <<variant, phase, windowCenter, restPosition, currentRopeEnd,
                   environment, scheduling, listeners>>
    /\ LET dx == Sub(event.x, currentRopeEnd.x)
           dy == Sub(event.y, currentRopeEnd.y)
           distance == Sqrt(Add(Mul(dx, dx), Mul(dy, dy)))
       IN  IF Le(distance, HitRadius) /\ distance # HitRadius
           THEN /\ initAudio
                /\ isDragging' = TRUE
                /\ mousePosition' = Point(event.x, event.y)
           ELSE UNCHANGED <<audio, isDragging, mousePosition>>

\* handleMouseDown without the call of initAudio.
handleMouseDownWithoutAudio(event) ==
    /\ listeners
    /\ fault' = FALSE
    /\ writes' = <<>>
    /\ frame' = NoFrame
    /\ UNCHANGED <<variant, phase, windowCenter, restPosition, currentRopeEnd,
                   environment, scheduling, listeners, audio>>
    /\ LET dx == Sub(event.x, currentRopeEnd.x)
           dy == Sub(event.y, currentRopeEnd.y)
           distance == Sqrt(Add(Mul(dx, dx), Mul(dy, dy)))
       IN  IF Le(distance, HitRadius)
           THEN /\ isDragging' = TRUE
                /\ mousePosition' = Point(event.x, event.y)
           ELSE UNCHANGED <<isDragging, mousePosition>>

handleMouseDown(event) ==
    /\ listeners
    /\ fault' = FALSE
    /\ writes' = <<>>
    /\ frame' = NoFrame
    /\ UNCHANGED <<variant, phase, windowCenter, restPosition, currentRopeEnd,
                   environment, scheduling, listeners>>
    /\ LET dx == Sub(event.x, currentRopeEnd.x)
           dy == Sub(event.y, currentRopeEnd.y)
           distance == Sqrt(Add(Mul(dx, dx), Mul(dy, dy)))
       IN  IF Le(distance, HitRadius)
           THEN /\ initAudio
                /\ isDragging' = TRUE
                /\ mousePosition' = Point(event.x, event.y)
           ELSE UNCHANGED <<audio, isDragging, mousePosition>>

\* handleMouseMove without its isDragging guard.
handleMouseMoveAlways(event) ==
    /\ listeners
    /\ mousePosition' = Point(event.x, event.y)
    /\ fault' = FALSE
    /\ writes' = <<>>
    /\ frame' = NoFrame
    /\ UNCHANGED <<variant, phase, isDragging, windowCenter, restPosition,
                   currentRopeEnd, audio, environment, scheduling, listeners>>

handleMouseMove(event) ==
    /\ listeners
    /\ IF isDragging
       THEN mousePosition' = Point(event.x, event.y)
       ELSE UNCHANGED mousePosition
    /\ fault' = FALSE
    /\ writes' = <<>>
    /\ frame' = NoFrame
    /\ UNCHANGED <<variant, phase, isDragging, windowCenter, restPosition,
                   currentRopeEnd, audio, environment, scheduling, listeners>>

\* handleMouseUp without the gain reset.
handleMouseUpSilent ==
    /\ listeners
    /\ isDragging' = FALSE
    /\ writes' = <<>>
    /\ IF windowPresent
       THEN /\ restPosition' =
                   calculateRestPosition(mousePosition.x, mousePosition.y, windowCenter,
                                         BoundingClientRect(layout, windowSize))
            /\ fault' = FALSE
       ELSE /\ UNCHANGED restPosition
            /\ fault' = TRUE
    /\ frame' = NoFrame
    /\ UNCHANGED <<variant, phase, mousePosition, windowCenter, currentRopeEnd,
                   audio, environment, scheduling, listeners>>

\* handleMouseUp projecting onto the circle around the previous rest
\* position.
handleMouseUpAroundRest ==
    /\ listeners
    /\ isDragging' = FALSE
    /\ writes' = IF gainNode
                 THEN << SetTargetAtTime("gainNode.gain", 0, Div(Lit(1), Lit(10))) >>
                 ELSE <<>>
    /\ IF windowPresent
       THEN /\ restPosition' =
                   calculateRestPosition(mousePosition.x, mousePosition.y, restPosition,
                                         BoundingClientRect(layout, windowSize))
            /\ fault' = FALSE
       ELSE /\ UNCHANGED restPosition
            /\ fault' = TRUE
    /\ frame' = NoFrame
    /\ UNCHANGED <<variant, phase, mousePosition, windowCenter, currentRopeEnd,
                   audio, environment, scheduling, listeners>>

\* handleMouseUp: calculateRestPosition throws when the .window element is
\* missing, after the drag has ended and the gain reset has been written.
handleMouseUp ==
    /\ listeners
    /\ isDragging' = FALSE
    /\ writes' = IF gainNode
                 THEN << SetTargetAtTime("gainNode.gain", 0, Div(Lit(1), Lit(10))) >>
                 ELSE <<>>
    /\ IF windowPresent
       THEN /\ restPosition' =
                   calculateRestPosition(mousePosition.x, mousePosition.y, windowCenter,
                                         BoundingClientRect(layout, windowSize))
            /\ fault' = FALSE
       ELSE /\ UNCHANGED restPosition
            /\ fault' = TRUE
    /\ frame' = NoFrame
    /\ UNCHANGED <<variant, phase, mousePosition, windowCenter, currentRopeEnd,
                   audio, environment, scheduling, listeners>>

\* The scroll listener is updateWindowCenter itself; the page has moved the
\* element to c.
handleScroll(c) ==
    /\ listeners
    /\ layout' = IF windowPresent THEN c ELSE layout
    /\ IF windowPresent
       THEN /\ windowCenter' = updateWindowCenter(c, windowSize)
            /\ fault' = FALSE
       ELSE /\ UNCHANGED windowCenter
            /\ fault' = TRUE
    /\ writes' = <<>>
    /\ frame' = NoFrame
    /\ UNCHANGED <<variant, phase, isDragging, mousePosition, restPosition,
                   currentRopeEnd, audio, windowSize, hovered, canvasPresent,
                   windowPresent, scheduling, listeners>>

\* handleResize moving the rest position along with the centre.
handleResizeRecentering(c) ==
    /\ listeners
    /\ layout' = IF windowPresent THEN c ELSE layout
    /\ IF canvasPresent /\ windowPresent
       THEN /\ windowCenter' = updateWindowCenter(c, windowSize)
            /\ restPosition' = Point(Add(restPosition.x, Sub(c.x, windowCenter.x)),
                                     Add(restPosition.y, Sub(c.y, windowCenter.y)))
            /\ fault' = FALSE
       ELSE /\ UNCHANGED <<windowCenter, restPosition>>
            /\ fault' = canvasPresent
    /\ writes' = <<>>
    /\ frame' = NoFrame
    /\ UNCHANGED <<variant, phase, isDragging, mousePosition,
                   currentRopeEnd, audio, windowSize, hovered, canvasPresent,
                   windowPresent, scheduling, listeners>>

\* handleResize; the resized viewport has moved the element to c.
handleResize(c) ==
    /\ listeners
    /\ layout' = IF windowPresent THEN c ELSE layout
    /\ IF canvasPresent
       THEN IF windowPresent
            THEN /\ windowCenter' = updateWindowCenter(c, windowSize)
                 /\ fault' = FALSE
            ELSE /\ UNCHANGED windowCenter
                 /\ fault' = TRUE
       ELSE /\ UNCHANGED windowCenter
            /\ fault' = FALSE
    /\ writes' = <<>>
    /\ frame' = NoFrame
    /\ UNCHANGED <<variant, phase, isDragging, mousePosition, restPosition,
                   currentRopeEnd, audio, windowSize, hovered, canvasPresent,
                   windowPresent, scheduling, listeners>>

\* node.stop()
Stop(node) == [param |-> node, method |-> "stop", value |-> 0, timeConstant |-> 0]

\* audioContext.close()
Close == [param |-> "audioContext", method |-> "close", value |-> 0, timeConstant |-> 0]

\* The callback of onUnmounted. The older variant reads the undeclared
\* lfoOscillator, which throws a ReferenceError before the LFO is stopped and
\* the listeners are removed. The template's elements are gone when the hook
\* runs.
onUnmounted ==
    /\ phase' = "unmounted"
    /\ teardowns' = teardowns + 1
    /\ framePending' = IF animationFrameId # "null" THEN FALSE ELSE framePending
    /\ oscillator' = IF oscillator # "null" THEN "stopped" ELSE oscillator
    /\ audioContext' = IF audioContext # "null" THEN "closed" ELSE audioContext
    /\ IF variant = "App"
       THEN /\ lfo' = IF lfo # "null" THEN "stopped" ELSE lfo
            /\ lowpassFilter' = FALSE
            /\ listeners' = FALSE
            /\ fault' = FALSE
       ELSE /\ UNCHANGED <<lfo, lowpassFilter, listeners>>
            /\ fault' = TRUE
    /\ canvasPresent' = FALSE
    /\ windowPresent' = FALSE
    /\ writes' = (IF oscillator # "null" THEN <<Stop("oscillator")>> ELSE <<>>)
                 \o (IF audioContext # "null" THEN <<Close>> ELSE <<>>)
                 \o (IF variant = "App" /\ lfo # "null" THEN <<Stop("lfo")>> ELSE <<>>)
    /\ frame' = NoFrame
    /\ UNCHANGED <<variant, kinematics, isAudioInitialized, gainNode, lfoGain,
                   contextsCreated, layout, windowSize, hovered, animationFrameId,
                   ticks>>

\* Vue runs the hook when the component is unmounted.
Unmount == phase = "mounted" /\ onUnmounted

\* The pointer enters or leaves the .window element (the :hover rule of the
\* older variant resizes it).
HoverChange ==
    /\ variant = "Old"
    /\ phase = "mounted"
    /\ hovered' = ~hovered
    /\ fault' = FALSE
    /\ writes' = <<>>
    /\ frame' = NoFrame
    /\ UNCHANGED <<variant, phase, kinematics, audio, layout, windowSize,
                   canvasPresent, windowPresent, scheduling, listeners>>

\* The .window element goes missing from the document, or comes back. (The
\* canvas is a template ref: it is set while the component is mounted.)
WindowChange ==
    /\ phase = "mounted"
    /\ windowPresent' = ~windowPresent
    /\ fault' = FALSE
    /\ writes' = <<>>
    /\ frame' = NoFrame
    /\ UNCHANGED <<variant, phase, kinematics, audio, layout, windowSize, hovered,
                   canvasPresent, scheduling, listeners>>

MouseDown == \E event \in DownPositions : handleMouseDown(event)

MouseMove == \E event \in MovePositions : handleMouseMove(event)

MouseUp == handleMouseUp

Scroll == \E c \in Layouts : handleScroll(c)

Resize == \E c \in Layouts : handleResize(c)

Next ==
    \/ Mount
    \/ Tick
    \/ MouseDown
    \/ MouseMove
    \/ MouseUp
    \/ Scroll
    \/ Resize
    \/ Unmount
    \/ HoverChange
    \/ WindowChange

Spec == Init /\ [][Next]_vars


(***************************************************************************)
(* Pitch snapping on its own                                               *)
(***************************************************************************)

\* The frequencies half way between two neighbours of the scale.
ScaleMidpoints ==
    { (PENTATONIC_FREQUENCIES[i] + PENTATONIC_FREQUENCIES[i + 1]) \div 2 :
          i \in 1..(Len(PENTATONIC_FREQUENCIES) - 1) }

\* The values of baseFrequency the snapping is applied to: every whole
\* frequency up to MaxSnapHertz, and the midpoints of the scale.
SnapFrequencies == { Lit(h) : h \in 0..MaxSnapHertz } \cup ScaleMidpoints

\* updateAudio's call findClosestPentatonicFrequency(baseFrequency), with
\* baseFrequency = freq.
Snap ==
    /\ variant = "App"
    /\ \E freq \in SnapFrequencies :
           frame' = [NoFrame EXCEPT
                         !.pitch = <<freq, findClosestPentatonicFrequency(freq)>>]
    /\ UNCHANGED <<variant, phase, kinematics, audio, environment, scheduling,
                   listeners, fault, writes>>

SnapSpec == Init /\ [][Snap]_vars


(***************************************************************************)
(* Frames after the pointer events                                         *)
(***************************************************************************)

\* The pointer events of a behaviour whose frames all come after them.
Grab == ticks = 0 /\ MouseDown

Drag == ticks = 0 /\ MouseMove

Release == ticks = 0 /\ MouseUp

\* A frame run with no drag in progress.
SettleTick ==
    /\ ~isDragging
    /\ ticks < MaxSettleTicks
    /\ Frame

SettleNext ==
    \/ Mount
    \/ Grab
    \/ Drag
    \/ Release
    \/ SettleTick

SettleSpec == Init /\ [][SettleNext]_vars

RetryTick == ticks < MaxRetryTicks /\ Frame

RetryNext ==
    \/ Mount
    \/ Grab
    \/ Drag
    \/ Release
    \/ WindowChange
    \/ RetryTick

RetrySpec == Init /\ [][RetryNext]_vars


(***************************************************************************)
(* Teardown run more than once                                             *)
(***************************************************************************)

\* The callback of onUnmounted invoked again after the component was
\* unmounted.
TeardownAgain ==
    /\ phase = "unmounted"
    /\ teardowns < MaxTeardowns
    /\ onUnmounted

TeardownNext ==
    \/ Next
    \/ TeardownAgain

TeardownSpec == Init /\ [][TeardownNext]_vars


(***************************************************************************)
(* Frames over a range of rope lengths                                     *)
(***************************************************************************)

\* Where a scroll leaves the centre of the .window element: from the mount
\* layout upwards in steps of 10 px, which puts the rope end, placed 120 px
\* below the centre at mount, at 120, 130, ... px from it.
ScrollLayouts ==
    { Point(MountLayout.x, Sub(MountLayout.y, Lit(10 * k))) : k \in 0..MaxScrollSteps }

ScrollFar == \E c \in ScrollLayouts : handleScroll(c)

GainNext ==
    \/ Mount
    \/ MouseDown
    \/ ScrollFar
    \/ Tick

GainSpec == Init /\ [][GainNext]_vars


(***************************************************************************)
(* Properties                                                              *)
(***************************************************************************)

\* The distance from point p to point q, as the handlers compute it.
Distance(p, q) ==
    Sqrt(Add(Mul(Sub(p.x, q.x), Sub(p.x, q.x)), Mul(Sub(p.y, q.y), Sub(p.y, q.y))))

\* p is within the handle around the rope end: 18 px in App.vue, 10 px in
\* the older variant.
OnHandle(p) ==
    Le(Distance(p, currentRopeEnd), IF variant = "App" THEN Lit(18) ELSE Lit(10))

\* C1: a pointer-down at p starts a drag (dragging = true, pointerPos = p)
\* if and only if p is at most the hit radius from the rope end; a
\* pointer-down farther away changes neither dragging, pointerPos,
\* restPosition, ropeEnd nor the audio-initialized flag.
C1_PointerDownGrabsOnHandleOnly ==
    [][\A p \in DownPositions :
          handleMouseDown(p) =>
              IF OnHandle(p)
              THEN isDragging' /\ mousePosition' = p
              ELSE UNCHANGED <<isDragging, mousePosition, restPosition,
                               currentRopeEnd, isAudioInitialized>>]_vars

\* A drag started by a pointer-down on the rim of the handle, exactly the hit
\* radius from the rope end.
C1_Witness ==
    /\ isDragging
    /\ currentRopeEnd = MountRopeEnd
    /\ \/ variant = "App" /\ mousePosition = Point(Lit(518), Lit(620))
       \/ variant = "Old" /\ mousePosition = Point(Lit(510), Lit(620))

\* C2: the audio graph is constructed at most once, and only by a
\* pointer-down that lands on the handle: every step that constructs an
\* AudioContext is such a pointer-down and is the first construction.
C2_AudioConstructedOnceOnFirstGrab ==
    [][contextsCreated' # contextsCreated =>
          /\ contextsCreated = 0
          /\ contextsCreated' = 1
          /\ \E p \in DownPositions : handleMouseDown(p) /\ OnHandle(p)]_vars

\* A second drag is under way: the rest position was computed by a release
\* of a pointer right of the centre, which only a grab puts there.
C2_Witness ==
    /\ isDragging
    /\ contextsCreated = 1
    /\ IsFinite(restPosition.x)
    /\ restPosition.x > windowCenter.x

\* C3: a pointer-move at p sets pointerPos = p when dragging and changes no
\* state when not dragging; pointerPos changes only at a pointer-down on the
\* handle or at a pointer-move received while dragging.
C3_PointerMoveTracksOnlyWhileDragging ==
    [][/\ \A p \in MovePositions :
             handleMouseMove(p) =>
                 /\ isDragging => mousePosition' = p
                 /\ ~isDragging => UNCHANGED mousePosition
                 /\ UNCHANGED <<isDragging, restPosition, currentRopeEnd,
                                windowCenter, audio>>
       /\ mousePosition' # mousePosition =>
             \/ \E p \in DownPositions : handleMouseDown(p) /\ OnHandle(p)
             \/ isDragging /\ \E p \in MovePositions : handleMouseMove(p)]_vars

\* The pointer was moved during a drag.
C3_Witness == isDragging /\ mousePosition = Point(Lit(600), Lit(500))

\* The projection of p onto the circle of radius r around c.
OnCircle(p, c, r) ==
    LET d == Distance(p, c)
    IN  Point(Add(c.x, Mul(Div(Sub(p.x, c.x), d), r)),
              Add(c.y, Mul(Div(Sub(p.y, c.y), d), r)))

\* C4 (App.vue, the .window element in the document, pointer not on the
\* centre): a pointer-up sets dragging = false and restPosition =
\* windowCenter + normalize(pointerPos - windowCenter) * 120; with the centre
\* at (500, 500) and the pointer at (600, 500) that is exactly (620, 500).
\* In both variants a pointer-up ends the drag.
C4_PointerUpProjectsOntoCircle ==
    [][handleMouseUp =>
          /\ ~isDragging'
          /\ (variant = "App" /\ windowPresent /\ mousePosition # windowCenter) =>
                /\ restPosition' = OnCircle(mousePosition, windowCenter, Lit(120))
                /\ (windowCenter = Point(Lit(500), Lit(500))
                    /\ mousePosition = Point(Lit(600), Lit(500)))
                   => restPosition' = Point(Lit(620), Lit(500))]_vars

\* The release of the example: centre (500, 500), pointer (600, 500).
C4_Witness ==
    /\ variant = "App"
    /\ ~isDragging
    /\ windowCenter = Point(Lit(500), Lit(500))
    /\ mousePosition = Point(Lit(600), Lit(500))
    /\ restPosition = Point(Lit(620), Lit(500))


PointFinite(p) == IsFinite(p.x) /\ IsFinite(p.y)

\* The rounding a radius r carries: that of one division, scaled by r, and of
\* the multiplication, the additions and the square root.
Rounding(r) == RoundDiv(r, Q) + 2

\* p is at distance r from c, up to rounding.
AtDistance(p, c, r) ==
    /\ PointFinite(p)
    /\ Abs(Distance(p, c) - r) <= Rounding(r)

\* C5 as stated (App.vue): in every state after mount, restPosition is at
\* distance 120 from the current windowCenter, unless a release with the
\* pointer on the centre has left it undefined.
C5_RestOnCircleAroundCurrentCenter ==
    (variant = "App" /\ phase = "mounted" /\ PointFinite(restPosition))
        => AtDistance(restPosition, windowCenter, Lit(120))

\* C5, amended: whenever restPosition is assigned (by onMounted or by a
\* pointer-up), it is left at distance R, up to rounding, from windowCenter
\* as it is then, unless the pointer is on the centre; R is 120 in App.vue
\* and half the width of the .window element plus 20 in the older variant.
C5_RestOnCircleWhenAssigned ==
    [][restPosition' # restPosition =>
          \/ mousePosition = windowCenter /\ phase = "mounted"
          \/ AtDistance(restPosition', windowCenter',
                        IF variant = "Old" /\ hovered THEN Lit(270) ELSE Lit(120))]_vars

\* A release left restPosition on the circle around the centre of that
\* moment, and a scroll or resize has since moved the centre away.
C5_Witness ==
    /\ ~isDragging
    /\ restPosition = Point(Lit(620), Lit(500))
    /\ windowCenter = Point(Lit(500), Lit(-100))

\* C6: restPosition and ropeEnd are finite points in every state, also
\* after a pointer-up with the pointer on the window centre.
C6_RestAndRopeEndAlwaysFinite ==
    PointFinite(restPosition) /\ PointFinite(currentRopeEnd)

\* C7: after mount, restPosition changes only at a pointer-up that ends a
\* drag; a pointer-up received while not dragging leaves it unchanged.
C7_RestChangesOnlyAtDragRelease ==
    [][(phase = "mounted" /\ restPosition' # restPosition)
          => (isDragging /\ handleMouseUp)]_vars

\* C8: a frame that is not skipped sets ropeEnd = ropeEnd + (target -
\* ropeEnd) * a in each coordinate, with target = pointerPos and a = 0.2 when
\* dragging, target = restPosition and a = 0.01 when not, all as the pointer
\* events left them.
C8_FrameMovesRopeEndTowardTarget ==
    [][(ticks' = ticks + 1 /\ ~frame'.skipped) =>
          LET target == IF isDragging THEN mousePosition ELSE restPosition
              a == IF isDragging THEN Lit(1) \div 5 ELSE Lit(1) \div 100
          IN  currentRopeEnd' =
                  Point(Add(currentRopeEnd.x,
                            Mul(Sub(target.x, currentRopeEnd.x), a)),
                        Add(currentRopeEnd.y,
                            Mul(Sub(target.y, currentRopeEnd.y), a)))]_vars

\* A frame has run during a drag started on the rim of the handle: the rope
\* end has moved a fifth of the way from where it was placed at mount.
C8_Witness ==
    /\ frame.ran /\ ~frame.skipped
    /\ isDragging
    /\ mousePosition.y = MountRopeEnd.y
    /\ currentRopeEnd.y = MountRopeEnd.y
    /\ (currentRopeEnd.x - MountRopeEnd.x) * 5 = mousePosition.x - MountRopeEnd.x
    /\ currentRopeEnd.x # MountRopeEnd.x

\* C9: the resize and scroll handlers recompute windowCenter (the centre of
\* the .window element as laid out) and leave ropeEnd, restPosition,
\* pointerPos and dragging as they were.
C9_ResizeAndScrollOnlyRecenter ==
    [][(\E c \in Layouts : handleScroll(c) \/ handleResize(c)) =>
          /\ UNCHANGED <<currentRopeEnd, restPosition, mousePosition, isDragging>>
          /\ (windowPresent /\ canvasPresent) => windowCenter' = layout']_vars

\* The centre has moved with the layout while rope end and rest position
\* stayed where onMounted put them.
C9_Witness ==
    /\ phase = "mounted"
    /\ layout = Point(Lit(500), Lit(-100))
    /\ windowCenter = layout
    /\ currentRopeEnd = MountRopeEnd
    /\ restPosition = MountRopeEnd

\* C10: every normalized rope length a frame computes is clamped at both
\* ends: 0 for a length <= 150, 1 for a length >= 500, never negative or
\* above 1.
C10_NormalizedLengthClamped ==
    \A n \in frame.normalized :
        IsFinite(n) =>
            /\ 0 <= n /\ n <= Lit(1)
            /\ frame.ropeLength <= Lit(150) => n = 0
            /\ frame.ropeLength >= Lit(500) => n = Lit(1)


\* The members of the scale.
Scale == { PENTATONIC_FREQUENCIES[i] : i \in 1..Len(PENTATONIC_FREQUENCIES) }

\* C11: findClosestPentatonicFrequency returns a member of the 16-entry
\* scale whose absolute difference from the input is minimal over the whole
\* scale, the lower one when two members are equally near; 115 Hz snaps to
\* 110.0.
C11_SnapsToNearestScaleMember ==
    frame.pitch # <<>> =>
        LET freq == frame.pitch[1]
            snapped == frame.pitch[2]
        IN  /\ Cardinality(Scale) = 16
            /\ snapped \in Scale
            /\ \A m \in Scale :
                   /\ Abs(snapped - freq) <= Abs(m - freq)
                   /\ Abs(snapped - freq) = Abs(m - freq) => snapped <= m
            /\ freq = Lit(115) => snapped = Lit(110)

\* 208 Hz, as far from 196.0 as from 220.0, has snapped to 196.0.
C11_Witness == frame.pitch = <<Lit(208), Lit(196)>>

\* The gain targets written by the frame that ran last.
FrameGainTargets ==
    IF frame.ran
    THEN { writes[i].value : i \in { j \in 1..Len(writes) :
                                         writes[j].param = "gainNode.gain" } }
    ELSE {}

GainFadeOut ==
    [param |-> "gainNode.gain", method |-> "setTargetAtTime", value |-> 0,
     timeConstant |-> Lit(1) \div 10]

\* C13: every pointer-up received while audio is initialized writes a gain
\* target of exactly 0 with the 0.1 s ramp, and nothing else, whatever the
\* rope length and whether or not a drag was in progress.
C13_PointerUpFadesGainOut ==
    [][(handleMouseUp /\ isAudioInitialized) => writes' = <<GainFadeOut>>]_vars

\* A pointer-up has written the fade-out while the rope was extended by a
\* drag.
C13_Witness ==
    /\ isAudioInitialized
    /\ ~isDragging
    /\ ~frame.ran
    /\ writes = <<GainFadeOut>>
    /\ currentRopeEnd # MountRopeEnd

\* C14: before the first successful grab, a frame's parameter update and the
\* gain reset of a pointer-up do nothing: no call on the synth is made and
\* none of them faults (a pointer-up faults only for a missing .window
\* element, in calculateRestPosition).
C14_SynthUntouchedBeforeFirstGrab ==
    [][~isAudioInitialized =>
          /\ (Mount \/ ticks' = ticks + 1) => (writes' = <<>> /\ ~fault')
          /\ handleMouseUp => (writes' = <<>> /\ (fault' => ~windowPresent))]_vars

\* A frame has run, and not been skipped, before any grab.
C14_Witness ==
    /\ ~isAudioInitialized
    /\ ticks = 1
    /\ frame.ran /\ ~frame.skipped
    /\ writes = <<>>
    /\ ~fault

\* C15: once onUnmounted has run, no frame is pending, the oscillator and
\* the LFO are stopped if they were started, the audio context is closed if
\* it was created, the five listeners are removed, and the hook has not
\* thrown.
C15_TeardownCompletes ==
    teardowns > 0 =>
        /\ ~framePending
        /\ oscillator # "started"
        /\ lfo # "started"
        /\ audioContext # "running"
        /\ ~listeners

\* C16 (App.vue, whose first run of onUnmounted completes): a run of
\* onUnmounted after a completed one makes no call on the synth (no stop(),
\* no close()) and does not throw.
C16_RepeatedTeardownIsNoOp ==
    [][(variant = "App" /\ teardowns > 0 /\ teardowns' > teardowns)
          => (writes' = <<>> /\ ~fault')]_vars

\* C17: every parameter write of a frame is a ramp toward its target with
\* time constant 0.1 s, none an instantaneous step.
C17_FrameWritesAreRamps ==
    frame.ran =>
        \A i \in 1..Len(writes) :
            /\ writes[i].method = "setTargetAtTime"
            /\ writes[i].timeConstant = Lit(1) \div 10

\* The handler that ran last was a pointer-up (with audio initialized: it
\* is the only handler that writes the fade-out alone).
JustReleased == ~frame.ran /\ writes = <<GainFadeOut>>

\* C18: a pointer-up that directly follows a pointer-up leaves restPosition
\* as the first left it, and dragging is false after both.
C18_PointerUpTwiceKeepsRestPosition ==
    [][(JustReleased /\ handleMouseUp) =>
          /\ restPosition' = restPosition
          /\ ~isDragging /\ ~isDragging']_vars

\* A pointer-up has ended a drag to (600, 500): the state a second
\* pointer-up is received in, and leaves as it is.
C18_Witness ==
    /\ JustReleased
    /\ ~isDragging
    /\ mousePosition = Point(Lit(600), Lit(500))
    /\ windowCenter = Point(Lit(500), Lit(500))
    /\ restPosition = Point(Lit(620), Lit(500))
    /\ ENABLED handleMouseUp

\* The distance within which the rope end counts as settled: 1 px.
SettleEpsilon == Lit(1)

C20_FrameWithoutSurfaceIsSkipped ==
    [][ticks' = ticks + 1 =>
          IF ~canvasPresent \/ ~windowPresent
          THEN /\ frame'.skipped
               /\ currentRopeEnd' = currentRopeEnd
               /\ windowSize' = windowSize
               /\ writes' = <<>>
               /\ ~fault'
               /\ framePending'
          ELSE ~frame'.skipped]_vars

\* C20, amended: App.vue skips a frame on which the canvas or the .window
\* element is missing; the older variant looks up the canvas alone, and
\* with only the .window element missing it runs the frame as any other.
\* A skipped frame leaves ropeEnd and the window size alone, makes no synth
\* call, does not fault and schedules the next frame; a frame that is not
\* skipped moves ropeEnd toward its target, also right after a skipped one,
\* and schedules the next frame (unless a release on the window centre has
\* left restPosition undefined).
C20_FrameWithoutLookedUpElementIsSkipped ==
    [][ticks' = ticks + 1 =>
          IF ~canvasPresent \/ (variant = "App" /\ ~windowPresent)
          THEN /\ frame'.skipped
               /\ currentRopeEnd' = currentRopeEnd
               /\ windowSize' = windowSize
               /\ writes' = <<>>
               /\ ~fault'
               /\ framePending'
          ELSE /\ ~frame'.skipped
               /\ isDragging =>
                      currentRopeEnd' =
                          Point(Add(currentRopeEnd.x,
                                    Mul(Sub(mousePosition.x, currentRopeEnd.x),
                                        Lit(1) \div 5)),
                                Add(currentRopeEnd.y,
                                    Mul(Sub(mousePosition.y, currentRopeEnd.y),
                                        Lit(1) \div 5)))
               /\ (isDragging \/ PointFinite(restPosition)) =>
                      (~fault' /\ framePending')]_vars

\* App.vue, a drag started before any frame: of two frames the first was
\* skipped for the missing .window element, and the second, run with the
\* element back, has moved the rope end a fifth of the way to the pointer.
C20_Witness ==
    /\ variant = "App"
    /\ ticks = 2
    /\ frame.ran /\ ~frame.skipped
    /\ windowPresent
    /\ isDragging
    /\ currentRopeEnd.x # MountRopeEnd.x
    /\ (currentRopeEnd.x - MountRopeEnd.x) * 5 = mousePosition.x - MountRopeEnd.x

\* C21: after a pointer-up and until the next grab (audio initialized, no
\* drag in progress), no frame writes a gain target other than 0, whatever
\* the rope length.
C21_NoGainAfterRelease ==
    (isAudioInitialized /\ ~isDragging) =>
        \A target \in FrameGainTargets : target = 0

\* C22: while a drag is in progress the audio graph is initialized
\* (isAudioInitialized, and the oscillator, gain, LFO and LFO-gain handles
\* are set), and every frame run during a drag that is not skipped makes
\* the parameter writes of updateAudio, the gain target last.
C22_DraggingImpliesAudioInitialized ==
    /\ [](isDragging =>
              /\ isAudioInitialized
              /\ oscillator # "null"
              /\ gainNode
              /\ lfo # "null"
              /\ lfoGain)
    /\ [][(ticks' = ticks + 1 /\ isDragging /\ ~frame'.skipped) =>
              /\ Len(writes') = (IF variant = "App" /\ lowpassFilter THEN 4 ELSE 3)
              /\ writes'[Len(writes')].param = "gainNode.gain"
              /\ \E i \in 1..Len(writes') : writes'[i].param = "oscillator.frequency"
              /\ \E i \in 1..Len(writes') : writes'[i].param = "lfo.frequency"]_vars

\* A frame run during a drag has made its parameter writes.
C22_Witness ==
    /\ isDragging
    /\ frame.ran /\ ~frame.skipped
    /\ writes # <<>>
    /\ writes[Len(writes)].param = "gainNode.gain"

=============================================================================
